---- MODULE Spec2Model ----
(***************************************************************************)
(* Grid-world Markov decision processes solved by value iteration and      *)
(* (modified) policy iteration: Maze.py, Algorithms.py.                    *)
(*                                                                         *)
(* Numbers.  The program computes in Python floats.  The model computes    *)
(* the same expressions in exact rational arithmetic: a probability is a   *)
(* number of tenths (0.8 is 8, 0.1 is 1), a discount factor and a maximum  *)
(* error are pairs <<numerator, denominator>>, and a utility table is a    *)
(* record [den, num] whose utility at state s is num[s] / den.  Every      *)
(* round of Bellman updates multiplies den by ProbScale * (denominator of  *)
(* the discount factor), so no rounding ever happens.                      *)
(*                                                                         *)
(* Coordinates are the program's (row, col) pairs, counted from 0.         *)
(***************************************************************************)
EXTENDS Integers, Sequences, FiniteSets, TLC

VARIABLES
    environment,            \* Maze.environment: rows of cells
    start_state,            \* Maze.start_state
    discount_factor,        \* mdp.discount_factor, <<num, den>>
    states,                 \* mdp.states: state -> action -> outcome map
    pc,                     \* where the driver is
    max_error,              \* value_iteration argument, <<num, den>>
    current_utilities,      \* value_iteration local U
    new_utilities,          \* value_iteration local U'
    optimal_policy,         \* value_iteration local
    all_iteration_utilities,\* value_iteration local history
    vi_sweeps,              \* passes of the while loop of value_iteration
    vi_result,              \* what value_iteration returned or raised
    num_policy_evaluation,  \* policy_iteration argument
    pi_utilities,           \* policy_iteration local current_utilities
    policy,                 \* policy_iteration local policy
    old_policy,             \* policy handed to the last policy_improvement
    pi_history,             \* policy_iteration local all_iteration_utilities
    hasChanged,             \* policy_iteration local
    num_iterations,         \* policy_iteration local
    pi_loops,               \* passes of the while loop of policy_iteration
    pi_result,              \* what policy_iteration returned or raised
    query                   \* the last reward_function/transition_model call

vars == <<environment, start_state, discount_factor, states, pc, max_error,
          current_utilities, new_utilities, optimal_policy,
          all_iteration_utilities, vi_sweeps, vi_result,
          num_policy_evaluation, pi_utilities, policy, old_policy,
          pi_history, hasChanged, num_iterations, pi_loops, pi_result, query>>

viVars == <<max_error, current_utilities, new_utilities, optimal_policy,
            all_iteration_utilities, vi_sweeps, vi_result>>

piVars == <<num_policy_evaluation, pi_utilities, policy, old_policy,
            pi_history, hasChanged, num_iterations, pi_loops, pi_result>>

mazeVars == <<environment, start_state, discount_factor, states>>

----------------------------------------------------------------------------
(* Bounds of the model *)

MaxCells == 4
MaxSweeps == 5
MaxPolicyEvaluation == 2

----------------------------------------------------------------------------
(* Constants.py and the literals of Maze.py *)

\* W = None marks a wall; the model writes it as a number no reward takes.
W == 99
G == 1
B == -1

\* The probabilities 0.8 and 0.1, in tenths.
ProbScale == 10
IntendedProbability == 8
DriftProbability == 1

Rewards == {G, B}
Cells == Rewards \cup {W}

\* class MazeActions, in its enumeration order
MazeActions == <<"UP", "DOWN", "LEFT", "RIGHT">>
ActionSet == {MazeActions[i] : i \in 1..Len(MazeActions)}

\* the value of an enum member: the (row, col) step
ActionValue(a) ==
    CASE a = "UP" -> <<-1, 0>>
      [] a = "DOWN" -> <<1, 0>>
      [] a = "LEFT" -> <<0, -1>>
      [] a = "RIGHT" -> <<0, 1>>

----------------------------------------------------------------------------
(* Inputs *)

\* All rectangular grids of at most MaxCells cells.
GridShapes == {p \in (1..MaxCells) \X (1..MaxCells) : p[1] * p[2] <= MaxCells}
SmallGrids == UNION {[1..p[1] -> [1..p[2] -> Cells]] : p \in GridShapes}

\* A 2 x 3 maze without walls.
DriftMaze == << <<B, B, G>>, <<G, G, B>> >>

Environments == SmallGrids \cup {DriftMaze}

StartStates == {<<0, 0>>, <<1, 1>>}

\* 0.5 and 1
DiscountFactors == {<<1, 2>>, <<1, 1>>}

\* 0.25 and 1.5
MaxErrors == {<<1, 4>>, <<3, 2>>}

\* the first cell and its two neighbours, a negative row, a negative column
\* and a row beyond every grid
QueryStates == {<<0, 0>>, <<0, 1>>, <<1, 0>>, <<-1, 0>>, <<0, -1>>, <<MaxCells, 0>>}

----------------------------------------------------------------------------
(* Maze.py *)

NumRows(env) == Len(env)
NumCols(env) == Len(env[1])

\* Maze.is_wall
is_wall(env, state) ==
    \/ state[1] < 0
    \/ state[1] >= NumRows(env)
    \/ state[2] < 0
    \/ state[2] >= NumCols(env)
    \/ env[state[1] + 1][state[2] + 1] = W

\* up_state, down_state, left_state, right_state of
\* get_next_state_probabilities: the neighbour, or the state itself
NeighbourState(env, state, a) ==
    LET n == <<state[1] + ActionValue(a)[1], state[2] + ActionValue(a)[2]>>
    IN  IF is_wall(env, n) THEN state ELSE n

\* the two actions an intended action can drift to
DriftActions_Backwards(a) ==
    CASE a = "UP" -> {"DOWN", "RIGHT"}
      [] a = "DOWN" -> {"UP", "LEFT"}
      [] a = "LEFT" -> {"RIGHT", "UP"}
      [] a = "RIGHT" -> {"LEFT", "DOWN"}

DriftActions(a) ==
    IF a \in {"UP", "DOWN"} THEN {"LEFT", "RIGHT"} ELSE {"UP", "DOWN"}

\* Maze.get_next_state_probabilities
get_next_state_probabilities_NoWallCheck(env, state, action) ==
    [x \in {action} \cup DriftActions(action) |->
        [next_state |-> <<state[1] + ActionValue(x)[1],
                          state[2] + ActionValue(x)[2]>>,
         probability |-> IF x = action THEN IntendedProbability
                                       ELSE DriftProbability]]

get_next_state_probabilities(env, state, action) ==
    [x \in {action} \cup DriftActions(action) |->
        [next_state |-> NeighbourState(env, state, x),
         probability |-> IF x = action THEN IntendedProbability
                                       ELSE DriftProbability]]

\* Maze.build_action_next_state_map
build_action_next_state_map(env, state) ==
    [action \in ActionSet |-> get_next_state_probabilities(env, state, action)]

\* the dict comprehension of Maze.__init__ and the loop that fills it
BuildStates(env) ==
    [state \in {s \in (0..(NumRows(env) - 1)) \X (0..(NumCols(env) - 1)) :
                    ~is_wall(env, s)}
        |-> build_action_next_state_map(env, state)]

\* indexing a Python list: a negative index counts from the end
PyIndexOk(list, i) == i >= -Len(list) /\ i < Len(list)
PyIndex(list, i) == IF i < 0 THEN list[Len(list) + i + 1] ELSE list[i + 1]

\* Maze.reward_function
reward_function(env, state) ==
    IF ~PyIndexOk(env, state[1]) THEN [raised |-> "IndexError", value |-> 0]
    ELSE IF ~PyIndexOk(PyIndex(env, state[1]), state[2])
         THEN [raised |-> "IndexError", value |-> 0]
         ELSE [raised |-> "", value |-> PyIndex(PyIndex(env, state[1]), state[2])]

\* Maze.transition_model
transition_model(sts, current_state, intended_action, actual_action) ==
    IF current_state \notin DOMAIN sts
    THEN [raised |-> "KeyError", value |-> 0]
    ELSE LET next_state_probability_map == sts[current_state][intended_action]
         IN  IF actual_action \in DOMAIN next_state_probability_map
             THEN [raised |-> "",
                   value |-> next_state_probability_map[actual_action].probability]
             ELSE [raised |-> "", value |-> 0]

----------------------------------------------------------------------------
(* Algorithms.py: the helpers *)

Abs(x) == IF x < 0 THEN -x ELSE x

\* the largest member of a non-empty finite set of integers
SetMax(S) == CHOOSE m \in S : \A x \in S : x <= m

\* a utility table: the utility of state s is num[s] / den
Table(den, num) == [den |-> den, num |-> num]
EmptyTable == Table(1, <<>>)
ZeroTable(sts) == Table(1, [s \in DOMAIN sts |-> 0])

\* the factor by which one round of updates refines the denominator
RoundScale(gamma) == ProbScale * gamma[2]

RECURSIVE SumOutcomes(_, _, _, _, _)
SumOutcomes(sts, current_state, intended_action, utilities, keys) ==
    IF keys = {} THEN 0
    ELSE LET stochastic_next_state == CHOOSE x \in keys : TRUE
             next_state ==
                 sts[current_state][intended_action][stochastic_next_state].next_state
             next_state_utility == utilities.num[next_state]
         IN  transition_model(sts, current_state, intended_action,
                              stochastic_next_state).value * next_state_utility
             + SumOutcomes(sts, current_state, intended_action, utilities,
                           keys \ {stochastic_next_state})

\* get_expected_utility; the result counts units of 1/(ProbScale * utilities.den)
get_expected_utility(sts, current_state, intended_action, utilities) ==
    SumOutcomes(sts, current_state, intended_action, utilities,
                DOMAIN sts[current_state][intended_action])

\* the loop over the actions in bellman_equation and policy_improvement:
\* a later action replaces the best one only when strictly better
NoBest == [max_expected_utility |-> 0, best_action |-> "None"]

RECURSIVE BestActionLoop_Min(_, _, _, _, _)
BestActionLoop_Min(sts, state, utilities, i, acc) ==
    IF i > Len(MazeActions) THEN acc
    ELSE LET action == MazeActions[i]
             expected_utility == get_expected_utility(sts, state, action, utilities)
         IN  BestActionLoop_Min(sts, state, utilities, i + 1,
                 IF acc.best_action = "None"
                    \/ expected_utility < acc.max_expected_utility
                 THEN [max_expected_utility |-> expected_utility,
                       best_action |-> action]
                 ELSE acc)

RECURSIVE BestActionLoop_LastWins(_, _, _, _, _)
BestActionLoop_LastWins(sts, state, utilities, i, acc) ==
    IF i > Len(MazeActions) THEN acc
    ELSE LET action == MazeActions[i]
             expected_utility == get_expected_utility(sts, state, action, utilities)
         IN  BestActionLoop_LastWins(sts, state, utilities, i + 1,
                 IF acc.best_action = "None"
                    \/ expected_utility >= acc.max_expected_utility
                 THEN [max_expected_utility |-> expected_utility,
                       best_action |-> action]
                 ELSE acc)

RECURSIVE BestActionLoop(_, _, _, _, _)
BestActionLoop(sts, state, utilities, i, acc) ==
    IF i > Len(MazeActions) THEN acc
    ELSE LET action == MazeActions[i]
             expected_utility == get_expected_utility(sts, state, action, utilities)
         IN  BestActionLoop(sts, state, utilities, i + 1,
                 IF acc.best_action = "None"
                    \/ expected_utility > acc.max_expected_utility
                 THEN [max_expected_utility |-> expected_utility,
                       best_action |-> action]
                 ELSE acc)

\* bellman_equation; updated_utility counts units of
\* 1/(current_utilities.den * RoundScale(gamma))
bellman_equation(sts, env, gamma, current_state, current_utilities_) ==
    LET best == BestActionLoop(sts, current_state, current_utilities_, 1, NoBest)
        current_state_reward == reward_function(env, current_state).value
    IN  [updated_utility |->
            current_state_reward * RoundScale(gamma) * current_utilities_.den
            + gamma[1] * best.max_expected_utility,
         best_action |-> best.best_action]

----------------------------------------------------------------------------
(* Algorithms.py: value_iteration *)

\* one round of lines 54-61: U' and the policy from the snapshot U
BellmanSweep(sts, env, gamma, U) ==
    [s \in DOMAIN sts |-> bellman_equation(sts, env, gamma, s, U)]

\* delta of lines 52 and 61, in units of 1/(U.den * RoundScale(gamma))
max_utility_difference(gamma, U, sweep) ==
    SetMax({0} \cup {Abs(sweep[s].updated_utility - U.num[s] * RoundScale(gamma)) :
                        s \in DOMAIN sweep})

\* line 64: delta < max_error * (1 - gamma) / gamma, both sides multiplied
\* by the positive number den * max_error[2] * gamma[1]
BelowThreshold_SignSlip(delta, den, eps, gamma) ==
    delta * eps[2] * gamma[1] < eps[1] * (gamma[1] - gamma[2]) * den

BelowThreshold(delta, den, eps, gamma) ==
    delta * eps[2] * gamma[1] < eps[1] * (gamma[2] - gamma[1]) * den

----------------------------------------------------------------------------
(* Algorithms.py: policy_evaluation and policy_improvement *)

\* the loop "for state in mdp.states" of lines 170-181: updated_utilities is
\* filled state by state, every entry from the table U of the round before
RECURSIVE EvaluationLoop_InPlace(_, _, _, _, _, _)
EvaluationLoop_InPlace(sts, env, gamma, pol, U, todo) ==
    IF todo = {} THEN <<>>
    ELSE LET state == CHOOSE s \in todo : TRUE
             updated_utility ==
                 reward_function(env, state).value * RoundScale(gamma) * U.den
                 + gamma[1] * get_expected_utility(sts, state, pol[state], U)
             written ==
                 Table(U.den, [U.num EXCEPT
                                  ![state] = updated_utility \div RoundScale(gamma)])
         IN  (state :> updated_utility)
             @@ EvaluationLoop_InPlace(sts, env, gamma, pol, written,
                                       todo \ {state})

RECURSIVE EvaluationLoop(_, _, _, _, _, _)
EvaluationLoop(sts, env, gamma, pol, U, todo) ==
    IF todo = {} THEN <<>>
    ELSE LET state == CHOOSE s \in todo : TRUE
             updated_utility ==
                 reward_function(env, state).value * RoundScale(gamma) * U.den
                 + gamma[1] * get_expected_utility(sts, state, pol[state], U)
         IN  (state :> updated_utility)
             @@ EvaluationLoop(sts, env, gamma, pol, U, todo \ {state})

\* one pass of the loop "for i in range(num_policy_evaluation)"
EvaluationRound(sts, env, gamma, pol, U) ==
    Table(U.den * RoundScale(gamma),
          EvaluationLoop(sts, env, gamma, pol, U, DOMAIN sts))

\* policy_evaluation: the table after every round is appended to the record
RECURSIVE policy_evaluation(_, _, _, _, _, _)
policy_evaluation(sts, env, gamma, pol, utilities, rounds) ==
    IF rounds = 0
    THEN [current_utilities |-> utilities,
          new_iteration_utilities |-> [s \in DOMAIN sts |-> <<>>]]
    ELSE LET U == EvaluationRound(sts, env, gamma, pol, utilities)
             rest == policy_evaluation(sts, env, gamma, pol, U, rounds - 1)
         IN  [current_utilities |-> rest.current_utilities,
              new_iteration_utilities |->
                  [s \in DOMAIN sts |->
                      <<<<U.num[s], U.den>>>> \o rest.new_iteration_utilities[s]]]

\* policy_improvement
policy_improvement_AdoptsTies(sts, pol, utilities) ==
    LET best == [s \in DOMAIN sts |-> BestActionLoop(sts, s, utilities, 1, NoBest)]
        improves(s) ==
            best[s].max_expected_utility
                >= get_expected_utility(sts, s, pol[s], utilities)
    IN  [improved_policy |->
            [s \in DOMAIN sts |-> IF improves(s) THEN best[s].best_action
                                                 ELSE pol[s]],
         hasChanged |-> \E s \in DOMAIN sts : improves(s)]

policy_improvement(sts, pol, utilities) ==
    LET best == [s \in DOMAIN sts |-> BestActionLoop(sts, s, utilities, 1, NoBest)]
        improves(s) ==
            best[s].max_expected_utility
                > get_expected_utility(sts, s, pol[s], utilities)
    IN  [improved_policy |->
            [s \in DOMAIN sts |-> IF improves(s) THEN best[s].best_action
                                                 ELSE pol[s]],
         hasChanged |-> \E s \in DOMAIN sts : improves(s)]

----------------------------------------------------------------------------
(* The driver: a maze is built, queried or solved by value iteration and   *)
(* then by policy iteration, as Main.py does.                              *)

NoResult == [status |-> "none"]
NoQuery == [fn |-> "none"]

Init ==
    /\ environment \in Environments
    /\ start_state = <<>>
    /\ discount_factor = <<>>
    /\ states = <<>>
    /\ pc = "new"
    /\ max_error = <<>>
    /\ current_utilities = EmptyTable
    /\ new_utilities = EmptyTable
    /\ optimal_policy = <<>>
    /\ all_iteration_utilities = <<>>
    /\ vi_sweeps = 0
    /\ vi_result = NoResult
    /\ num_policy_evaluation = 0
    /\ pi_utilities = EmptyTable
    /\ policy = <<>>
    /\ old_policy = <<>>
    /\ pi_history = <<>>
    /\ hasChanged = FALSE
    /\ num_iterations = 0
    /\ pi_loops = 0
    /\ pi_result = NoResult
    /\ query = NoQuery

\* Maze.__init__
MazeInit(start, gamma) ==
    /\ pc = "new"
    /\ start_state' = start
    /\ discount_factor' = gamma
    /\ states' = BuildStates(environment)
    /\ pc' = "ready"
    /\ UNCHANGED <<environment, viVars, piVars, query>>

\* a call of Maze.reward_function
RewardQuery(state) ==
    /\ pc = "ready"
    /\ query' = [fn |-> "reward_function", state |-> state,
                 result |-> reward_function(environment, state)]
    /\ pc' = "queried"
    /\ UNCHANGED <<mazeVars, viVars, piVars>>

\* a call of Maze.transition_model
TransitionQuery(state, intended_action, actual_action) ==
    /\ pc = "ready"
    /\ query' = [fn |-> "transition_model", state |-> state,
                 intended_action |-> intended_action,
                 actual_action |-> actual_action,
                 result |-> transition_model(states, state, intended_action,
                                             actual_action)]
    /\ pc' = "queried"
    /\ UNCHANGED <<mazeVars, viVars, piVars>>

\* value_iteration, lines 28-42
VIStart(eps) ==
    /\ pc = "ready"
    /\ max_error' = eps
    /\ current_utilities' = EmptyTable
    /\ new_utilities' = ZeroTable(states)
    /\ all_iteration_utilities' = [s \in DOMAIN states |-> <<>>]
    /\ optimal_policy' = [s \in DOMAIN states |-> "None"]
    /\ vi_sweeps' = 0
    /\ pc' = "vi"
    /\ UNCHANGED <<mazeVars, vi_result, piVars, query>>

\* value_iteration, one pass of the while loop, lines 44-65
VISweep ==
    /\ pc = "vi"
    /\ vi_sweeps < MaxSweeps
    /\ LET U == new_utilities
           sweep == BellmanSweep(states, environment, discount_factor, U)
           den == U.den * RoundScale(discount_factor)
           delta == max_utility_difference(discount_factor, U, sweep)
       IN  /\ current_utilities' = U
           /\ all_iteration_utilities' =
                  [s \in DOMAIN states |->
                      Append(all_iteration_utilities[s], <<U.num[s], U.den>>)]
           /\ new_utilities' =
                  Table(den, [s \in DOMAIN states |-> sweep[s].updated_utility])
           /\ optimal_policy' = [s \in DOMAIN states |-> sweep[s].best_action]
           /\ pc' = IF BelowThreshold(delta, den, max_error, discount_factor)
                    THEN "vi_return" ELSE "vi"
    /\ vi_sweeps' = vi_sweeps + 1
    /\ UNCHANGED <<mazeVars, max_error, vi_result, piVars, query>>

\* value_iteration, lines 67-72; len(None) raises TypeError
VIReturn_NewUtilities ==
    /\ pc = "vi_return"
    /\ vi_result' =
           IF start_state \in DOMAIN all_iteration_utilities
           THEN [status |-> "returned",
                 converged_utilities |-> new_utilities,
                 optimal_policy |-> optimal_policy,
                 num_iterations |-> Len(all_iteration_utilities[start_state]),
                 iteration_utilities |-> all_iteration_utilities]
           ELSE [status |-> "TypeError"]
    /\ pc' = "vi_done"
    /\ UNCHANGED <<mazeVars, max_error, current_utilities, new_utilities,
                   optimal_policy, all_iteration_utilities, vi_sweeps,
                   piVars, query>>

VIReturn ==
    /\ pc = "vi_return"
    /\ vi_result' =
           IF start_state \in DOMAIN all_iteration_utilities
           THEN [status |-> "returned",
                 converged_utilities |-> current_utilities,
                 optimal_policy |-> optimal_policy,
                 num_iterations |-> Len(all_iteration_utilities[start_state]),
                 iteration_utilities |-> all_iteration_utilities]
           ELSE [status |-> "TypeError"]
    /\ pc' = "vi_done"
    /\ UNCHANGED <<mazeVars, max_error, current_utilities, new_utilities,
                   optimal_policy, all_iteration_utilities, vi_sweeps,
                   piVars, query>>

\* policy_iteration, lines 96-111
PIStart(k) ==
    /\ pc = "vi_done"
    /\ num_policy_evaluation' = k
    /\ pi_utilities' = ZeroTable(states)
    /\ policy' = [s \in DOMAIN states |-> "UP"]
    /\ old_policy' = <<>>
    /\ pi_history' = [s \in DOMAIN states |-> <<<<0, 1>>>>]
    /\ hasChanged' = TRUE
    /\ num_iterations' = 0
    /\ pi_loops' = 0
    /\ pc' = "pi"
    /\ UNCHANGED <<mazeVars, viVars, pi_result, query>>

\* policy_iteration, one pass of the while loop, lines 113-129
PILoop ==
    /\ pc = "pi"
    /\ hasChanged
    /\ num_iterations + num_policy_evaluation <= MaxSweeps
    /\ LET evaluated == policy_evaluation(states, environment, discount_factor,
                                          policy, pi_utilities,
                                          num_policy_evaluation)
           improved == policy_improvement(states, policy,
                                          evaluated.current_utilities)
       IN  /\ pi_utilities' = evaluated.current_utilities
           /\ old_policy' = policy
           /\ policy' = improved.improved_policy
           /\ hasChanged' = improved.hasChanged
           /\ pi_history' =
                  [s \in DOMAIN states |->
                      pi_history[s] \o evaluated.new_iteration_utilities[s]]
    /\ num_iterations' = num_iterations + num_policy_evaluation
    /\ pi_loops' = pi_loops + 1
    /\ UNCHANGED <<mazeVars, viVars, num_policy_evaluation, pi_result, pc, query>>

\* policy_iteration, lines 131-136; len(None) raises TypeError
PIReturn_AfterAnyPass ==
    /\ pc = "pi"
    /\ pi_loops >= 1
    /\ pi_result' =
           IF start_state \in DOMAIN pi_history
           THEN [status |-> "returned",
                 converged_utilities |-> pi_utilities,
                 optimal_policy |-> policy,
                 num_iterations |-> Len(pi_history[start_state]),
                 iteration_utilities |-> pi_history]
           ELSE [status |-> "TypeError"]
    /\ pc' = "done"
    /\ UNCHANGED <<mazeVars, viVars, num_policy_evaluation, pi_utilities, policy,
                   old_policy, pi_history, hasChanged, num_iterations, pi_loops,
                   query>>

PIReturn ==
    /\ pc = "pi"
    /\ ~hasChanged
    /\ pi_result' =
           IF start_state \in DOMAIN pi_history
           THEN [status |-> "returned",
                 converged_utilities |-> pi_utilities,
                 optimal_policy |-> policy,
                 num_iterations |-> Len(pi_history[start_state]),
                 iteration_utilities |-> pi_history]
           ELSE [status |-> "TypeError"]
    /\ pc' = "done"
    /\ UNCHANGED <<mazeVars, viVars, num_policy_evaluation, pi_utilities, policy,
                   old_policy, pi_history, hasChanged, num_iterations, pi_loops,
                   query>>

Next ==
    \/ \E start \in StartStates, gamma \in DiscountFactors : MazeInit(start, gamma)
    \/ \E state \in QueryStates : RewardQuery(state)
    \/ \E state \in QueryStates, a \in ActionSet, x \in ActionSet :
           TransitionQuery(state, a, x)
    \/ \E eps \in MaxErrors : VIStart(eps)
    \/ VISweep
    \/ VIReturn
    \/ \E k \in 1..MaxPolicyEvaluation : PIStart(k)
    \/ PILoop
    \/ PIReturn

Spec == Init /\ [][Next]_vars

\* value_iteration alone on a new maze.  The interpreter does not stop in
\* the middle of the loop: a pass that can be taken is taken.
ValueIterationNext ==
    \/ \E start \in StartStates, gamma \in DiscountFactors : MazeInit(start, gamma)
    \/ \E eps \in MaxErrors : VIStart(eps)
    \/ VISweep
    \/ VIReturn

\* A pass of the while loop, told by the pass counter alone: every VISweep
\* step is such a step, and it can be taken exactly when VISweep can.
VILoopPass ==
    /\ pc = "vi"
    /\ vi_sweeps < MaxSweeps
    /\ vi_sweeps' = vi_sweeps + 1

FairSpec == Init /\ [][ValueIterationNext]_vars /\ WF_vi_sweeps(VILoopPass)

----------------------------------------------------------------------------
(* Exact comparison of fractions, and the utility of a fixed policy *)

\* a/b <= c/d for b, d > 0, by continued fractions (no products)
RECURSIVE RatLeq(_, _, _, _)
RatLeq(a, b, c, d) ==
    LET qa == a \div b
        qc == c \div d
        ra == a % b
        rc == c % d
    IN  IF qa # qc THEN qa < qc
        ELSE IF ra = 0 THEN TRUE
        ELSE IF rc = 0 THEN FALSE
        ELSE RatLeq(d, rc, b, ra)

RatEq(a, b, c, d) == RatLeq(a, b, c, d) /\ RatLeq(c, d, a, b)

\* the states in row-major order
RECURSIVE StateOrder(_)
StateOrder(S) ==
    IF S = {} THEN <<>>
    ELSE LET first == CHOOSE s \in S : \A t \in S :
                          s[1] < t[1] \/ (s[1] = t[1] /\ s[2] <= t[2])
         IN  <<first>> \o StateOrder(S \ {first})

RemoveAt(seq, j) == SubSeq(seq, 1, j - 1) \o SubSeq(seq, j + 1, Len(seq))

\* determinant of the matrix M restricted to the given rows and columns
RECURSIVE Det(_, _, _)
RECURSIVE DetRow(_, _, _, _)
DetRow(M, rows, cols, j) ==
    IF j > Len(cols) THEN 0
    ELSE (IF M[rows[1]][cols[j]] = 0 THEN 0
          ELSE (IF j % 2 = 1 THEN 1 ELSE -1) * M[rows[1]][cols[j]]
               * Det(M, Tail(rows), RemoveAt(cols, j)))
         + DetRow(M, rows, cols, j + 1)
Det(M, rows, cols) == IF rows = <<>> THEN 1 ELSE DetRow(M, rows, cols, 1)

\* probability, in tenths, of moving from s to t under action a
MoveProbability(sts, s, a, t) ==
    LET keys == {x \in DOMAIN sts[s][a] : sts[s][a][x].next_state = t}
    IN  IntendedProbability * Cardinality(keys \cap {a})
        + DriftProbability * Cardinality(keys \ {a})

\* The utility U of following pol forever solves
\*   U(s) = R(s) + gamma * sum_t P(t | s, pol(s)) * U(t);
\* multiplied by RoundScale(gamma) the system has integer coefficients and
\* Cramer's rule gives U(s) = num[s] / den.  For gamma < 1, den > 0.
PolicyUtility(sts, env, gamma, pol) ==
    LET order == StateOrder(DOMAIN sts)
        n == Len(order)
        idx == 1..n
        M == [i \in idx |-> [j \in idx |->
                 (IF i = j THEN RoundScale(gamma) ELSE 0)
                 - gamma[1] * MoveProbability(sts, order[i], pol[order[i]], order[j])]]
        rhs == [i \in idx |-> RoundScale(gamma) * reward_function(env, order[i]).value]
        Mcol(k) == [i \in idx |-> [j \in idx |-> IF j = k THEN rhs[i] ELSE M[i][j]]]
        all == [i \in idx |-> i]
        pos(s) == CHOOSE i \in idx : order[i] = s
    IN  Table(Det(M, all, all),
              [s \in DOMAIN sts |-> Det(Mcol(pos(s)), all, all)])

\* pointwise comparison of two tables with positive denominators
TableLeq(U, V) == \A s \in DOMAIN U.num : RatLeq(U.num[s], U.den, V.num[s], V.den)
TableEq(U, V) == TableLeq(U, V) /\ TableLeq(V, U)

Proper(gamma) == gamma[1] > 0 /\ gamma[1] < gamma[2]

----------------------------------------------------------------------------
(* C1 *)

\* C1: on a 1x1 grid whose cell is not a wall, with 0 < gamma < 1, the
\* utility value_iteration returns for the single state differs from
\* r / (1 - gamma) by no more than max_error.
C1_SingleStateWithinError ==
    (/\ pc \in {"vi_return", "vi_done"}
     /\ NumRows(environment) = 1 /\ NumCols(environment) = 1
     /\ environment[1][1] # W
     /\ Proper(discount_factor))
    => LET r == environment[1][1]
           u == current_utilities.num[<<0, 0>>]
           den == current_utilities.den
           one_minus_gamma == discount_factor[2] - discount_factor[1]
       IN  Abs(u * one_minus_gamma - r * discount_factor[2] * den) * max_error[2]
               <= max_error[1] * den * one_minus_gamma

\* C2: the policy value_iteration returns is greedy for the utilities it
\* returns: at no state has any action a strictly larger expected utility
\* than the returned action.
C2_GreedyConsistent ==
    vi_result.status = "returned"
    => \A s \in DOMAIN states : \A a \in ActionSet :
          get_expected_utility(states, s, a, vi_result.converged_utilities)
            <= get_expected_utility(states, s, vi_result.optimal_policy[s],
                                    vi_result.converged_utilities)

\* value_iteration returned after at least two sweeps with a policy that
\* moves in three different directions
C2_Witness ==
    /\ vi_result.status = "returned"
    /\ vi_sweeps >= 2
    /\ Cardinality({vi_result.optimal_policy[s] : s \in DOMAIN states}) >= 3

----------------------------------------------------------------------------
(* C3 *)

\* C3: on the same grid and discount factor, policy_iteration and
\* value_iteration return the same policy, or policies that give every
\* state the same utility.
C3_SamePolicyOrSameUtility ==
    (/\ vi_result.status = "returned"
     /\ pi_result.status = "returned"
     /\ Proper(discount_factor))
    => \/ vi_result.optimal_policy = pi_result.optimal_policy
       \/ TableEq(PolicyUtility(states, environment, discount_factor,
                                vi_result.optimal_policy),
                  PolicyUtility(states, environment, discount_factor,
                                pi_result.optimal_policy))

----------------------------------------------------------------------------
(* C4 *)

InGrid(env, s) ==
    s[1] \in 0..(NumRows(env) - 1) /\ s[2] \in 0..(NumCols(env) - 1)

FreeCell(env, s) == InGrid(env, s) /\ env[s[1] + 1][s[2] + 1] # W

Step(s, x) == <<s[1] + ActionValue(x)[1], s[2] + ActionValue(x)[2]>>

RECURSIVE SumProbabilities(_, _)
SumProbabilities(outcomes, keys) ==
    IF keys = {} THEN 0
    ELSE LET x == CHOOSE k \in keys : TRUE
         IN  outcomes[x].probability + SumProbabilities(outcomes, keys \ {x})

\* C4: once the Maze is built, its states are the free cells of the grid;
\* every state and intended action has exactly three outcomes whose
\* probabilities sum to 1; every outcome's next_state is a state, and it is
\* the current state when the neighbour in the outcome's direction is a wall
\* or off the grid.
C4_OutcomeMap ==
    pc # "new"
    => /\ DOMAIN states =
              {s \in (0..(NumRows(environment) - 1)) \X (0..(NumCols(environment) - 1)) :
                  FreeCell(environment, s)}
       /\ \A s \in DOMAIN states : \A a \in ActionSet :
             LET outcomes == states[s][a]
             IN  /\ Cardinality(DOMAIN outcomes) = 3
                 /\ SumProbabilities(outcomes, DOMAIN outcomes) = ProbScale
                 /\ \A x \in DOMAIN outcomes :
                       /\ outcomes[x].next_state \in DOMAIN states
                       /\ FreeCell(environment, outcomes[x].next_state)
                       /\ ~FreeCell(environment, Step(s, x))
                              => outcomes[x].next_state = s

\* a built maze where one state has an outcome blocked by a wall, one that
\* leaves the grid, and one that moves
C4_Witness ==
    /\ pc = "ready"
    /\ \E s \in DOMAIN states : \E a \in ActionSet :
          \E x, y, z \in DOMAIN states[s][a] :
             /\ InGrid(environment, Step(s, x))
             /\ ~FreeCell(environment, Step(s, x))
             /\ states[s][a][x].next_state = s
             /\ ~InGrid(environment, Step(s, y))
             /\ states[s][a][y].next_state = s
             /\ states[s][a][z].next_state # s

----------------------------------------------------------------------------
(* C5 *)

\* C5: the num_iterations policy_iteration returns is the number of
\* evaluation rounds performed, num_policy_evaluation times the number of
\* outer loops, and is the length of every state's list in
\* iteration_utilities.
C5_CountIsRoundsPerformed ==
    pi_result.status = "returned"
    => /\ pi_result.num_iterations = num_policy_evaluation * pi_loops
       /\ \A s \in DOMAIN states :
             Len(pi_result.iteration_utilities[s]) = pi_result.num_iterations

----------------------------------------------------------------------------
(* C6 *)

\* C6: with a discount factor >= 1, value_iteration performs no Bellman
\* sweep: it never enters the loop and never evaluates the threshold.
C6_RejectsDiscountAtLeastOne ==
    (pc # "new" /\ discount_factor[1] >= discount_factor[2])
    => (vi_sweeps = 0 /\ pc # "vi_return")

----------------------------------------------------------------------------
(* C7 *)

\* C7: reward_function and transition_model fail with an error for every
\* coordinate that is not a state of the Maze.
C7_QueryOutsideStatesFails ==
    (pc = "queried" /\ query.state \notin DOMAIN states)
    => query.result.raised # ""

----------------------------------------------------------------------------
(* C8 *)

\* C8: for a grid with a free cell and 0 < gamma < 1, the loop of
\* value_iteration eventually sees a residual below the threshold and exits.
C8_ValueIterationExits ==
    (pc = "vi" /\ DOMAIN states # {} /\ Proper(discount_factor))
        ~> (pc = "vi_return")

\* the loop exited after at least three sweeps on a grid with two states
C8_Witness ==
    /\ pc = "vi_return"
    /\ Proper(discount_factor)
    /\ Cardinality(DOMAIN states) >= 2
    /\ vi_sweeps >= 3

----------------------------------------------------------------------------
(* C9 *)

\* C9: the policy held after an improvement step is, at every state, worth
\* at least as much as the policy held after the previous improvement step.
C9_Monotonic ==
    (/\ pc \in {"pi", "done"}
     /\ pi_loops >= 2
     /\ Proper(discount_factor)
     /\ old_policy # policy)
    => TableLeq(PolicyUtility(states, environment, discount_factor, old_policy),
                PolicyUtility(states, environment, discount_factor, policy))

----------------------------------------------------------------------------
(* C10 *)

\* C10: whatever the start state, a wall or a coordinate off the grid
\* included, value_iteration and policy_iteration complete and return.
C10_AnyStartStateReturns ==
    /\ pc = "vi_done" => vi_result.status = "returned"
    /\ pc = "done" => pi_result.status = "returned"

----------------------------------------------------------------------------
(* C11 *)

\* the table a history recorded at position i
HistoryTable(history, i) ==
    Table(IF DOMAIN history = {} THEN 1
          ELSE history[CHOOSE s \in DOMAIN history : TRUE][i][2],
          [s \in DOMAIN history |-> history[s][i][1]])

\* C11: sweeps are synchronous.  After a sweep of value_iteration the new
\* utility and the action of every state are the Bellman update of the table
\* as it stood when the sweep began; every round of the last
\* policy_evaluation recorded, for every state, the update of the table the
\* round before it recorded, under the policy that was evaluated.
C11_Synchronous ==
    /\ (pc \in {"vi", "vi_return"} /\ vi_sweeps >= 1)
       => /\ new_utilities.den
                = current_utilities.den * RoundScale(discount_factor)
          /\ \A s \in DOMAIN states :
                LET b == bellman_equation(states, environment, discount_factor,
                                          s, current_utilities)
                IN  /\ new_utilities.num[s] = b.updated_utility
                    /\ optimal_policy[s] = b.best_action
    /\ (pc = "pi" /\ pi_loops >= 1)
       => \A s \in DOMAIN states : \A j \in 1..num_policy_evaluation :
             LET i == Len(pi_history[s]) - num_policy_evaluation + j - 1
                 T == HistoryTable(pi_history, i)
             IN  pi_history[s][i + 1] =
                     << reward_function(environment, s).value
                            * RoundScale(discount_factor) * T.den
                        + discount_factor[1]
                            * get_expected_utility(states, s, old_policy[s], T),
                        T.den * RoundScale(discount_factor) >>

\* a state reads, under the action in force, an earlier state of the visiting
\* order whose utility the same sweep or round changed: in value_iteration
\* and in the second round of a policy_evaluation
C11_Witness ==
    /\ pc = "pi"
    /\ vi_sweeps >= 2
    /\ pi_loops >= 1
    /\ num_policy_evaluation >= 2
    /\ \E s, t \in DOMAIN states :
          /\ s # t
          /\ t[1] < s[1] \/ (t[1] = s[1] /\ t[2] < s[2])
          /\ \E x \in DOMAIN states[s][optimal_policy[s]] :
                states[s][optimal_policy[s]][x].next_state = t
          /\ new_utilities.num[t]
                # current_utilities.num[t] * RoundScale(discount_factor)
          /\ \E x \in DOMAIN states[s][old_policy[s]] :
                states[s][old_policy[s]][x].next_state = t
          /\ LET n == Len(pi_history[t])
             IN  pi_history[t][n][1]
                    # pi_history[t][n - 1][1] * RoundScale(discount_factor)

----------------------------------------------------------------------------
(* C12 *)

\* the actions that reach the maximal expected utility at a state
MaximalActions(sts, state, utilities) ==
    LET maximum == SetMax({get_expected_utility(sts, state, b, utilities) :
                              b \in ActionSet})
    IN  {a \in ActionSet :
            get_expected_utility(sts, state, a, utilities) = maximum}

\* the first of them in the order UP, DOWN, LEFT, RIGHT
FirstMaximalAction(sts, state, utilities) ==
    LET maximal == MaximalActions(sts, state, utilities)
        first == CHOOSE i \in 1..Len(MazeActions) :
                    /\ MazeActions[i] \in maximal
                    /\ \A j \in 1..(i - 1) : MazeActions[j] \notin maximal
    IN  MazeActions[first]

\* C12: ties go to the first action in the order UP, DOWN, LEFT, RIGHT.  The
\* action bellman_equation returns for a state is the first maximal action
\* for the table of the sweep; the best action policy_improvement finds for
\* the evaluated table is the first maximal action, and so is every action
\* it put in place of another; when all four actions tie, the best is UP.
C12_FirstMaximalWins ==
    /\ (pc \in {"vi", "vi_return"} /\ vi_sweeps >= 1)
       => \A s \in DOMAIN states :
             /\ optimal_policy[s] = FirstMaximalAction(states, s, current_utilities)
             /\ MaximalActions(states, s, current_utilities) = ActionSet
                   => optimal_policy[s] = "UP"
    /\ (pc = "pi" /\ pi_loops >= 1)
       => \A s \in DOMAIN states :
             LET best == BestActionLoop(states, s, pi_utilities, 1, NoBest)
             IN  /\ best.best_action = FirstMaximalAction(states, s, pi_utilities)
                 /\ MaximalActions(states, s, pi_utilities) = ActionSet
                       => best.best_action = "UP"
                 /\ policy[s] # old_policy[s] => policy[s] = best.best_action

\* value_iteration chose between two tied maximal actions neither of which
\* is UP, and policy_improvement replaced an action where two actions tie
C12_Witness ==
    /\ pc = "pi"
    /\ vi_sweeps >= 2
    /\ \E s \in DOMAIN states :
          /\ Cardinality(MaximalActions(states, s, current_utilities)) = 2
          /\ "UP" \notin MaximalActions(states, s, current_utilities)
    /\ pi_loops >= 1
    /\ \E s \in DOMAIN states :
          /\ policy[s] # old_policy[s]
          /\ Cardinality(MaximalActions(states, s, pi_utilities)) >= 2

----------------------------------------------------------------------------
(* C13 *)

\* some action is worth strictly more at the state than the policy's action
StrictlyImprovable(sts, state, pol, utilities) ==
    \E a \in ActionSet :
        get_expected_utility(sts, state, a, utilities)
            > get_expected_utility(sts, state, pol[state], utilities)

\* C13: after policy_improvement, a state holds the first maximal action if
\* that action is worth strictly more than the action the state held, and
\* the action it held otherwise; hasChanged is true exactly when some state's
\* action was replaced, which is exactly when the policy returned differs
\* from the policy handed in.
C13_ReplacesOnStrictGain ==
    (pc = "pi" /\ pi_loops >= 1)
    => /\ \A s \in DOMAIN states :
             policy[s] =
                 IF StrictlyImprovable(states, s, old_policy, pi_utilities)
                 THEN FirstMaximalAction(states, s, pi_utilities)
                 ELSE old_policy[s]
       /\ hasChanged
             <=> \E s \in DOMAIN states :
                     StrictlyImprovable(states, s, old_policy, pi_utilities)
       /\ hasChanged <=> policy # old_policy

\* the second or a later improvement replaced the action of one state and
\* kept, at another state, an earlier replacement that now ties with another
\* action for the maximum
C13_Witness ==
    /\ pc = "pi"
    /\ pi_loops >= 2
    /\ hasChanged
    /\ \E s, t \in DOMAIN states :
          /\ policy[s] # old_policy[s]
          /\ policy[t] = old_policy[t]
          /\ policy[t] # "UP"
          /\ Cardinality(MaximalActions(states, t, pi_utilities)) >= 2

----------------------------------------------------------------------------
(* C14 *)

\* two actions are opposite when their steps cancel, perpendicular when the
\* steps have inner product 0
Opposite(a, x) ==
    /\ ActionValue(a)[1] + ActionValue(x)[1] = 0
    /\ ActionValue(a)[2] + ActionValue(x)[2] = 0

Perpendicular(a, x) ==
    ActionValue(a)[1] * ActionValue(x)[1]
        + ActionValue(a)[2] * ActionValue(x)[2] = 0

\* C14: for a state of the maze, transition_model(s, a, x) returns 0.8 when
\* x = a, 0.1 when x is perpendicular to a and 0 when x is opposite to a;
\* the opposite action is no outcome of any state and intended action of
\* the maze as built.
C14_TransitionProbabilities ==
    /\ (/\ pc = "queried"
        /\ query.fn = "transition_model"
        /\ query.state \in DOMAIN states)
       => /\ query.result.raised = ""
          /\ query.intended_action = query.actual_action
                => query.result.value = IntendedProbability
          /\ Perpendicular(query.intended_action, query.actual_action)
                => query.result.value = DriftProbability
          /\ Opposite(query.intended_action, query.actual_action)
                => query.result.value = 0
    /\ pc = "ready"
       => \A s \in DOMAIN states : \A a \in ActionSet :
             \A x \in DOMAIN states[s][a] : ~Opposite(a, x)

\* transition_model was asked, at a state, for the action opposite to the
\* intended one, where the cell behind the agent is free
C14_Witness ==
    /\ pc = "queried"
    /\ query.fn = "transition_model"
    /\ query.state \in DOMAIN states
    /\ Opposite(query.intended_action, query.actual_action)
    /\ FreeCell(environment, Step(query.state, query.actual_action))
    /\ query.result.value = 0

----------------------------------------------------------------------------
(* C15 *)

\* C15: policy_iteration makes a first pass of its loop; after a pass that
\* changed some state's action its next step is another pass, and after a
\* pass that changed none its next step is the return, of the policy and
\* the utilities it holds.  What it returns is a fixed point:
\* policy_improvement of the returned policy against the returned utilities
\* gives the same policy and no change.
C15_ReturnsAtFirstQuietPass ==
    /\ [][pc = "pi"
            => /\ pi_loops = 0 => (pc' = "pi" /\ pi_loops' = 1)
               /\ (pi_loops >= 1 /\ policy # old_policy)
                     => (pc' = "pi" /\ pi_loops' = pi_loops + 1)
               /\ (pi_loops >= 1 /\ policy = old_policy)
                     => /\ pc' = "done"
                        /\ pi_result'.status = "returned"
                              => /\ pi_result'.optimal_policy = policy
                                 /\ pi_result'.converged_utilities = pi_utilities]_vars
    /\ [](pi_result.status = "returned"
            => /\ pi_loops >= 1
               /\ LET again == policy_improvement(states, pi_result.optimal_policy,
                                                  pi_result.converged_utilities)
                  IN  /\ again.improved_policy = pi_result.optimal_policy
                      /\ ~again.hasChanged)

\* policy_iteration returned after two passes that changed the policy and a
\* third that did not
C15_Witness ==
    /\ pc = "done"
    /\ pi_result.status = "returned"
    /\ pi_loops >= 3
    /\ \E s \in DOMAIN states : pi_result.optimal_policy[s] # "UP"

----------------------------------------------------------------------------
(* C16 *)

\* the lists of a returned history have one length, begin with 0 and end
\* with the returned utility of their state
HistoryShape(result) ==
    \A s \in DOMAIN states :
        LET list == result.iteration_utilities[s]
        IN  /\ \A t \in DOMAIN states :
                  Len(result.iteration_utilities[t]) = Len(list)
            /\ Len(list) >= 1
            /\ list[1][1] = 0
            /\ list[Len(list)] = << result.converged_utilities.num[s],
                                   result.converged_utilities.den >>

\* C16: what value_iteration and policy_iteration return has histories of
\* one length that begin with 0 and end with the returned utilities.
\* value_iteration recorded one table per sweep, the table the sweep began
\* with: it returns the table its final sweep began with, and the table that
\* sweep computed, one round further, is neither in the history nor
\* returned.  policy_iteration recorded the zero table and one table per
\* evaluation round.
C16_HistoryEndsAtReturnedUtilities ==
    /\ vi_result.status = "returned"
       => /\ HistoryShape(vi_result)
          /\ \A s \in DOMAIN states :
                Len(vi_result.iteration_utilities[s]) = vi_sweeps
          /\ vi_result.converged_utilities = current_utilities
          /\ new_utilities.den
                = vi_result.converged_utilities.den * RoundScale(discount_factor)
          /\ \A s \in DOMAIN states :
                \A i \in 1..Len(vi_result.iteration_utilities[s]) :
                    vi_result.iteration_utilities[s][i][2] # new_utilities.den
    /\ pi_result.status = "returned"
       => /\ HistoryShape(pi_result)
          /\ \A s \in DOMAIN states :
                Len(pi_result.iteration_utilities[s]) = 1 + num_iterations

\* both solvers returned on a maze of several states, value_iteration after
\* a final sweep that changed a utility, policy_iteration after two passes
C16_Witness ==
    /\ pc = "done"
    /\ vi_result.status = "returned"
    /\ pi_result.status = "returned"
    /\ Cardinality(DOMAIN states) >= 2
    /\ vi_sweeps >= 2
    /\ pi_loops >= 2
    /\ \E s \in DOMAIN states :
          new_utilities.num[s]
              # current_utilities.num[s] * RoundScale(discount_factor)

====
